---- MODULE Spec2Model ----
(***************************************************************************)
(* A model of mistral_strategy.py: the ChatFacade, its two request         *)
(* strategies and the message histories they keep.                         *)
(*                                                                         *)
(* Python lists are objects: a history is a reference into `heap`, so that *)
(* replacing a history (a new list) and appending to one (in place) are    *)
(* different things, as they are in the program.                           *)
(***************************************************************************)
EXTENDS Integers, Sequences, FiniteSets, TLC

VARIABLES
    request_strategy,   \* ChatFacade.request_strategy: "None", "text" or "image"
    heap,               \* the list objects: reference -> sequence of messages
    text_history,       \* TextRequestStrategy.history, a reference
    image_history,      \* ImageRequestStrategy.history, a reference or NoneRef
    op,                 \* the last call: its name and its arguments
    ret,                \* how the last call ended: what it returned or raised;
                        \* a returned list is a reference the caller now holds
    wire                \* the HTTP POSTs the last call issued, in order

vars == <<request_strategy, heap, text_history, image_history, op, ret, wire>>

-----------------------------------------------------------------------------
(* Bounds of the model *)

\* number of list objects the heap can hold at once
MaxObjs == 3

\* longest history a direct execute call is let to extend
MaxHist == 4

-----------------------------------------------------------------------------
(* Values *)

\* Python's None where a list reference is expected
NoneRef == 0

\* Python's None where an image path is expected
NonePath == "<None>"

Objs == 1 .. MaxObjs

\* the texts a caller asks
Texts == {"hello", "describe"}

\* choices[0].message.content of the API's answers
Replies == {"hi"}

\* a response body that has no "choices" to read
NoChoices == "<no choices>"

\* the bodies the API answers with: a reply's content, or nothing to read
Bodies == Replies \cup {NoChoices}

\* the HTTP status codes the API answers with
Statuses == {200, 201, 404}

\* the files of the file system: path -> bytes
FileSystem == ("castle.jpg" :> <<255, 216, 255, 224>>) @@ ("empty.jpg" :> <<>>)

\* the image paths a caller passes
Paths == {NonePath, "", "castle.jpg", "empty.jpg", "missing.jpg"}

\* the strategy kinds a caller passes to change_strategy
Kinds == {"text", "image", "audio"}

models_text == <<"mistral-small-latest", "open-mistral-nemo", "open-codestral-mamba">>

models_image == <<"pixtral-12b-2409">>

\* the model identifiers a caller passes to ask_question: the first of each list
Models == {models_text[1], models_image[1]}

\* the integers a user enters at select_model's prompt
InputNums == (0 - 1) .. (Len(models_text) + 1)

-----------------------------------------------------------------------------
(* Conversions *)

Digits == <<"0", "1", "2", "3", "4", "5", "6", "7", "8", "9">>

\* str(n) of a non-negative integer, as an f-string formats it
RECURSIVE IntToStr(_)
IntToStr(n) ==
    IF n < 10 THEN Digits[n + 1]
    ELSE IntToStr(n \div 10) \o Digits[(n % 10) + 1]

B64Alphabet ==
    << "A", "B", "C", "D", "E", "F", "G", "H", "I", "J", "K", "L", "M",
       "N", "O", "P", "Q", "R", "S", "T", "U", "V", "W", "X", "Y", "Z",
       "a", "b", "c", "d", "e", "f", "g", "h", "i", "j", "k", "l", "m",
       "n", "o", "p", "q", "r", "s", "t", "u", "v", "w", "x", "y", "z",
       "0", "1", "2", "3", "4", "5", "6", "7", "8", "9", "+", "/" >>

B64Char(n) == B64Alphabet[n + 1]

\* base64.b64encode(bytes).decode("utf-8"): three bytes to four characters,
\* the last group padded with "="
RECURSIVE b64encode(_)
b64encode(bytes) ==
    IF Len(bytes) = 0 THEN ""
    ELSE IF Len(bytes) = 1 THEN
        B64Char(bytes[1] \div 4) \o B64Char((bytes[1] % 4) * 16) \o "=="
    ELSE IF Len(bytes) = 2 THEN
        B64Char(bytes[1] \div 4)
            \o B64Char((bytes[1] % 4) * 16 + bytes[2] \div 16)
            \o B64Char((bytes[2] % 16) * 4) \o "="
    ELSE
        B64Char(bytes[1] \div 4)
            \o B64Char((bytes[1] % 4) * 16 + bytes[2] \div 16)
            \o B64Char((bytes[2] % 16) * 4 + bytes[3] \div 64)
            \o B64Char(bytes[3] % 64)
            \o b64encode(SubSeq(bytes, 4, Len(bytes)))

\* the data URI the image strategy builds from a file's bytes
DataUri(bytes) == "data:image/jpeg;base64," \o b64encode(bytes)

\* `if self.image_path:` -- None and the empty string are falsy
Truthy(image_path) == image_path # NonePath /\ image_path # ""

\* open(path, "rb") finds the file
FileExists(image_path) == image_path \in DOMAIN FileSystem

-----------------------------------------------------------------------------
(* Messages *)

\* a plain string as a message's content (text strategy, assistant replies)
StrContent(s) == [shape |-> "str", str |-> s, parts |-> <<>>]

\* the two-part list the image strategy builds as a user message's content
PartsContent(text, image_data) ==
    [shape |-> "list", str |-> "",
     parts |-> << [type |-> "text", value |-> text],
                  [type |-> "image_url", value |-> image_data] >>]

TextUserMessage(text) == [role |-> "user", content |-> StrContent(text)]

ImageUserMessage(text, image_data) ==
    [role |-> "user", content |-> PartsContent(text, image_data)]

AssistantMessage(content) == [role |-> "assistant", content |-> StrContent(content)]

-----------------------------------------------------------------------------
(* The heap of list objects *)

\* the messages of the list a reference names; None has none
Deref(h, ref) == IF ref = NoneRef THEN <<>> ELSE h[ref]

\* a new list object: the first reference no root holds
Alloc(roots) ==
    CHOOSE i \in Objs : i \notin roots /\ \A j \in Objs : j \notin roots => i <= j

\* the heap once the lists no root holds are freed
Collect(h, roots) == [i \in Objs |-> IF i \in roots THEN h[i] ELSE <<>>]

-----------------------------------------------------------------------------
(* Results of a call *)

Returned(kind, s) == [kind |-> kind, str |-> s, ref |-> NoneRef]

\* a list returned as it is, not copied
ReturnedRef(ref) == [kind |-> "ref", str |-> "", ref |-> ref]

Raised(exception, message) == [kind |-> exception, str |-> message, ref |-> NoneRef]

ReturnedNone == Returned("None", "")

\* the record of a call: its name, its arguments, the status the API answers
\* with if asked, and the length of the active strategy's history when the
\* call began (-1: None or no strategy)
Call(name, strategy_type, l_num, text, image_path, status, before) ==
    [name |-> name, strategy_type |-> strategy_type, l_num |-> l_num, text |-> text,
     image_path |-> image_path, status |-> status, before |-> before]

\* the length of the active strategy's history, -1 when there is none
ActiveLen ==
    IF request_strategy = "text" THEN Len(Deref(heap, text_history))
    ELSE IF request_strategy = "image" /\ image_history # NoneRef
        THEN Len(Deref(heap, image_history))
    ELSE 0 - 1

-----------------------------------------------------------------------------
(* State after construction: ChatFacade(api_key) *)

Init ==
    /\ request_strategy = "None"
    /\ heap = [i \in Objs |-> <<>>]
    /\ text_history = 1
    /\ image_history = 2
    /\ op = Call("__init__", "", 0, "", NonePath, 0, 0 - 1)
    /\ ret = ReturnedNone
    /\ wire = <<>>

-----------------------------------------------------------------------------------------------------------------------------------------------------
(* What the two execute methods share, line for line *)

\* WithUser with the supplied history ignored: a new list in every call
WithUser_Restarts(h, history, user) == <<user>>

\* `if history is None: self.history = [user] else: self.history.append(user)`:
\* the messages of self.history once the user message is in
WithUser(h, history, user) ==
    IF history = NoneRef THEN <<user>> ELSE Append(h[history], user)

\* `if status_code == 200: self.history.append(assistant)`: the messages of
\* self.history once the response is handled; a body with no "choices" raises
\* while the message is built, before the append
WithReply(sent, status, content) ==
    IF status = 200 /\ content # NoChoices
        THEN Append(sent, AssistantMessage(content))
        ELSE sent

\* Outcome with the error raised (as raise_for_status would) instead of returned
Outcome_Raises(status, content) ==
    IF status = 200
        THEN IF content = NoChoices
                THEN Raised("KeyError", "choices")
                ELSE Returned("json", content)
        ELSE Raised("HTTPError", "Error: " \o IntToStr(status))

\* what execute returns: the parsed body on 200 (kept here by its
\* choices[0].message.content; a body without "choices" raises KeyError at
\* line 95), else the string f"Error: {status_code}"
Outcome(status, content) ==
    IF status = 200
        THEN IF content = NoChoices
                THEN Raised("KeyError", "choices")
                ELSE Returned("json", content)
        ELSE Returned("str", "Error: " \o IntToStr(status))

\* the request payload {"model": ..., "messages": self.history} as it is POSTed
Payload(model, sent) == [model |-> model, messages |-> sent]

-----------------------------------------------------------------------------
(* TextRequestStrategy.execute *)

\* TextExecute with one retry of a request that was not answered 200
TextExecute_Retries(text, model, history, image_path, status, content) ==
    LET ref == IF history = NoneRef THEN Alloc({image_history}) ELSE history
        sent == WithUser(heap, history, TextUserMessage(text))
        final == WithReply(sent, status, content)
    IN  /\ text_history' = ref
        /\ heap' = Collect([heap EXCEPT ![ref] = final], {ref, image_history})
        /\ wire' = IF status = 200
                       THEN <<Payload(model, sent)>>
                       ELSE <<Payload(model, sent), Payload(model, sent)>>
        /\ ret' = Outcome(status, content)
        /\ UNCHANGED image_history

\* The call's history argument becomes self.history; None starts a new
\* one-element list, a supplied list is appended to in place.  The payload's
\* messages are the list as it is when the POST is made.
TextExecute(text, model, history, image_path, status, content) ==
    LET ref == IF history = NoneRef THEN Alloc({image_history}) ELSE history
        sent == WithUser(heap, history, TextUserMessage(text))
        final == WithReply(sent, status, content)
    IN  /\ text_history' = ref
        /\ heap' = Collect([heap EXCEPT ![ref] = final], {ref, image_history})
        /\ wire' = <<Payload(model, sent)>>
        /\ ret' = Outcome(status, content)
        /\ UNCHANGED image_history

-----------------------------------------------------------------------------
(* ImageRequestStrategy.execute *)

\* ImageRead with the missing file swallowed: the call goes on with no image
ImageRead_Swallows(image_path) ==
    IF Truthy(image_path) /\ FileExists(image_path)
        THEN [raised |-> FALSE, image_data |-> DataUri(FileSystem[image_path])]
        ELSE [raised |-> FALSE, image_data |-> ""]

\* ImageRead refusing a call that has no image path
ImageRead_NeedsPath(image_path) ==
    IF Truthy(image_path) /\ FileExists(image_path)
        THEN [raised |-> FALSE, image_data |-> DataUri(FileSystem[image_path])]
        ELSE [raised |-> TRUE, image_data |-> ""]

\* `if self.image_path: try: open ... except FileNotFoundError: raise`:
\* whether the read raises, and self.image_data after it
ImageRead(image_path) ==
    IF ~Truthy(image_path) THEN [raised |-> FALSE, image_data |-> ""]
    ELSE IF FileExists(image_path)
        THEN [raised |-> FALSE, image_data |-> DataUri(FileSystem[image_path])]
    ELSE [raised |-> TRUE, image_data |-> ""]

\* self.history is assigned the argument before the file is read, so a file
\* that is not found leaves self.history as the argument (None through the
\* facade) and raises before any request is made.
ImageExecute(text, model, history, image_path, status, content) ==
    LET read == ImageRead(image_path) IN
    IF read.raised THEN
        /\ image_history' = history
        /\ heap' = Collect(heap, {text_history, history})
        /\ wire' = <<>>
        /\ ret' = Raised("Exception", "Image file not found: " \o image_path)
        /\ UNCHANGED text_history
    ELSE
        LET ref == IF history = NoneRef THEN Alloc({text_history}) ELSE history
            sent == WithUser(heap, history, ImageUserMessage(text, read.image_data))
            final == WithReply(sent, status, content)
        IN  /\ image_history' = ref
            /\ heap' = Collect([heap EXCEPT ![ref] = final], {text_history, ref})
            /\ wire' = <<Payload(model, sent)>>
            /\ ret' = Outcome(status, content)
            /\ UNCHANGED text_history

-----
(* ChatFacade *)

\* ChangeStrategy carrying the conversation over: the strategy switched to
\* is handed the other strategy's list
ChangeStrategy_CarriesOver(strategy_type) ==
    /\ op' = Call("change_strategy", strategy_type, 0, "", NonePath, 0, ActiveLen)
    /\ wire' = <<>>
    /\ \/ /\ strategy_type = "text"
          /\ request_strategy' = "text"
          /\ text_history' = IF image_history = NoneRef THEN text_history
                                                          ELSE image_history
          /\ ret' = ReturnedNone
          /\ UNCHANGED image_history
       \/ /\ strategy_type = "image"
          /\ request_strategy' = "image"
          /\ image_history' = text_history
          /\ ret' = ReturnedNone
          /\ UNCHANGED text_history
       \/ /\ strategy_type \notin {"text", "image"}
          /\ ret' = Raised("ValueError", "Invalid strategy type")
          /\ UNCHANGED <<request_strategy, text_history, image_history>>
    /\ heap' = Collect(heap, {text_history', image_history'})

\* ChangeStrategy with the active strategy dropped before the kind is checked
ChangeStrategy_DropsFirst(strategy_type) ==
    /\ op' = Call("change_strategy", strategy_type, 0, "", NonePath, 0, ActiveLen)
    /\ wire' = <<>>
    /\ request_strategy' = IF strategy_type \in {"text", "image"}
                               THEN strategy_type
                               ELSE "None"
    /\ ret' = IF strategy_type \in {"text", "image"}
                  THEN ReturnedNone
                  ELSE Raised("ValueError", "Invalid strategy type")
    /\ heap' = Collect(heap, {text_history, image_history})
    /\ UNCHANGED <<text_history, image_history>>

ChangeStrategy(strategy_type) ==
    /\ op' = Call("change_strategy", strategy_type, 0, "", NonePath, 0, ActiveLen)
    /\ wire' = <<>>
    /\ \/ /\ strategy_type = "text"
          /\ request_strategy' = "text"
          /\ ret' = ReturnedNone
       \/ /\ strategy_type = "image"
          /\ request_strategy' = "image"
          /\ ret' = ReturnedNone
       \/ /\ strategy_type \notin {"text", "image"}
          /\ ret' = Raised("ValueError", "Invalid strategy type")
          /\ UNCHANGED request_strategy
    /\ heap' = Collect(heap, {text_history, image_history})
    /\ UNCHANGED <<text_history, image_history>>

\* PickModel with the range starting at 0: Python's models[-1] is the last one
PickModel_FromZero(models, l_num) ==
    IF l_num \in 0 .. Len(models)
        THEN Returned("str", models[IF l_num = 0 THEN Len(models) ELSE l_num])
        ELSE Raised("ValueError", "Invalid model number")

\* `l_num in range(1, len(models) + 1)`, then models[l_num - 1] (0-based)
PickModel(models, l_num) ==
    IF l_num \in 1 .. Len(models)
        THEN Returned("str", models[(l_num - 1) + 1])
        ELSE Raised("ValueError", "Invalid model number")

\* SelectModel with the two model lists swapped
SelectModel_Swapped(l_num) ==
    /\ op' = Call("select_model", "", l_num, "", NonePath, 0, ActiveLen)
    /\ wire' = <<>>
    /\ \/ /\ request_strategy = "text"
          /\ ret' = PickModel(models_image, l_num)
       \/ /\ request_strategy = "image"
          /\ ret' = PickModel(models_text, l_num)
       \/ /\ request_strategy \notin {"text", "image"}
          /\ ret' = Raised("ValueError", "Invalid strategy type")
    /\ heap' = Collect(heap, {text_history, image_history})
    /\ UNCHANGED <<request_strategy, text_history, image_history>>

SelectModel(l_num) ==
    /\ op' = Call("select_model", "", l_num, "", NonePath, 0, ActiveLen)
    /\ wire' = <<>>
    /\ \/ /\ request_strategy = "text"
          /\ ret' = PickModel(models_text, l_num)
       \/ /\ request_strategy = "image"
          /\ ret' = PickModel(models_image, l_num)
       \/ /\ request_strategy \notin {"text", "image"}
          /\ ret' = Raised("ValueError", "Invalid strategy type")
    /\ heap' = Collect(heap, {text_history, image_history})
    /\ UNCHANGED <<request_strategy, text_history, image_history>>

\* AskQuestion handing the strategy its own history, so that turns accumulate
AskQuestion_PassesHistory(text, model, image_path, status, content) ==
    /\ op' = Call("ask_question", "", 0, text, image_path, status, ActiveLen)
    /\ \/ /\ request_strategy = "text"
          /\ TextExecute(text, model, text_history, image_path, status, content)
       \/ /\ request_strategy = "image"
          /\ ImageExecute(text, model, image_history, image_path, status, content)
       \/ /\ request_strategy \notin {"text", "image"}
          /\ ret' = Raised("ValueError", "Invalid strategy type")
          /\ wire' = <<>>
          /\ heap' = Collect(heap, {text_history, image_history})
          /\ UNCHANGED <<text_history, image_history>>
    /\ UNCHANGED request_strategy

\* AskQuestion switching to the image strategy by itself when an image comes
AskQuestion_Switches(text, model, image_path, status, content) ==
    /\ op' = Call("ask_question", "", 0, text, image_path, status, ActiveLen)
    /\ \/ /\ request_strategy = "text" /\ ~Truthy(image_path)
          /\ TextExecute(text, model, NoneRef, image_path, status, content)
          /\ UNCHANGED request_strategy
       \/ /\ request_strategy = "text" /\ Truthy(image_path)
          /\ ImageExecute(text, model, NoneRef, image_path, status, content)
          /\ request_strategy' = "image"
       \/ /\ request_strategy = "image"
          /\ ImageExecute(text, model, NoneRef, image_path, status, content)
          /\ UNCHANGED request_strategy
       \/ /\ request_strategy \notin {"text", "image"}
          /\ ret' = Raised("ValueError", "Invalid strategy type")
          /\ wire' = <<>>
          /\ heap' = Collect(heap, {text_history, image_history})
          /\ UNCHANGED <<request_strategy, text_history, image_history>>

\* AskQuestion falling back to the text strategy when none is active
AskQuestion_FallsBack(text, model, image_path, status, content) ==
    /\ op' = Call("ask_question", "", 0, text, image_path, status, ActiveLen)
    /\ \/ /\ request_strategy # "image"
          /\ TextExecute(text, model, NoneRef, image_path, status, content)
       \/ /\ request_strategy = "image"
          /\ ImageExecute(text, model, NoneRef, image_path, status, content)
    /\ UNCHANGED request_strategy

\* ask_question never passes a history to execute
AskQuestion(text, model, image_path, status, content) ==
    /\ op' = Call("ask_question", "", 0, text, image_path, status, ActiveLen)
    /\ \/ /\ request_strategy = "text"
          /\ TextExecute(text, model, NoneRef, image_path, status, content)
       \/ /\ request_strategy = "image"
          /\ ImageExecute(text, model, NoneRef, image_path, status, content)
       \/ /\ request_strategy \notin {"text", "image"}
          /\ ret' = Raised("ValueError", "Invalid strategy type")
          /\ wire' = <<>>
          /\ heap' = Collect(heap, {text_history, image_history})
          /\ UNCHANGED <<text_history, image_history>>
    /\ UNCHANGED request_strategy

\* returns the active strategy's list itself, not a copy
GetHistory ==
    /\ op' = Call("get_history", "", 0, "", NonePath, 0, ActiveLen)
    /\ wire' = <<>>
    /\ \/ /\ request_strategy = "text"
          /\ ret' = ReturnedRef(text_history)
       \/ /\ request_strategy = "image"
          /\ ret' = ReturnedRef(image_history)
       \/ /\ request_strategy \notin {"text", "image"}
          /\ ret' = Raised("ValueError", "Invalid strategy type")
    /\ heap' = Collect(heap, {text_history, image_history})
    /\ UNCHANGED <<request_strategy, text_history, image_history>>

\* ClearHistory resetting the other strategy's history
ClearHistory_Other ==
    /\ op' = Call("clear_history", "", 0, "", NonePath, 0, ActiveLen)
    /\ wire' = <<>>
    /\ \/ /\ request_strategy = "image"
          /\ text_history' = Alloc({image_history})
          /\ heap' = Collect([heap EXCEPT ![text_history'] = <<>>],
                             {text_history', image_history})
          /\ ret' = ReturnedNone
          /\ UNCHANGED image_history
       \/ /\ request_strategy = "text"
          /\ image_history' = Alloc({text_history})
          /\ heap' = Collect([heap EXCEPT ![image_history'] = <<>>],
                             {text_history, image_history'})
          /\ ret' = ReturnedNone
          /\ UNCHANGED text_history
       \/ /\ request_strategy \notin {"text", "image"}
          /\ ret' = Raised("ValueError", "Invalid strategy type")
          /\ heap' = Collect(heap, {text_history, image_history})
          /\ UNCHANGED <<text_history, image_history>>
    /\ UNCHANGED request_strategy

\* assigns a new empty list; the old list is not emptied
ClearHistory ==
    /\ op' = Call("clear_history", "", 0, "", NonePath, 0, ActiveLen)
    /\ wire' = <<>>
    /\ \/ /\ request_strategy = "text"
          /\ text_history' = Alloc({image_history})
          /\ heap' = Collect([heap EXCEPT ![text_history'] = <<>>],
                             {text_history', image_history})
          /\ ret' = ReturnedNone
          /\ UNCHANGED image_history
       \/ /\ request_strategy = "image"
          /\ image_history' = Alloc({text_history})
          /\ heap' = Collect([heap EXCEPT ![image_history'] = <<>>],
                             {text_history, image_history'})
          /\ ret' = ReturnedNone
          /\ UNCHANGED text_history
       \/ /\ request_strategy \notin {"text", "image"}
          /\ ret' = Raised("ValueError", "Invalid strategy type")
          /\ heap' = Collect(heap, {text_history, image_history})
          /\ UNCHANGED <<text_history, image_history>>
    /\ UNCHANGED request_strategy

-----------------------------------------------------------------------------
(* The facade used by one caller, one call at a time *)

Next ==
    \/ \E strategy_type \in Kinds : ChangeStrategy(strategy_type)
    \/ \E l_num \in InputNums : SelectModel(l_num)
    \/ \E text \in Texts, model \in Models, image_path \in Paths,
          status \in Statuses, content \in Bodies :
            AskQuestion(text, model, image_path, status, content)
    \/ GetHistory
    \/ ClearHistory

Spec == Init /\ [][Next]_vars

-----------------------------------------------------------------------------
(* The strategies also called directly, with a history argument *)

\* what a caller can pass as history: nothing, or the list get_history has
\* just returned to it
HistoryArgs == {NoneRef} \cup (IF ret.kind = "ref" THEN {ret.ref} ELSE {})

\* the length of the list passed as history, -1 when none is passed
PassedLen(history) == IF history = NoneRef THEN 0 - 1 ELSE Len(heap[history])

TextExecuteDirect(text, model, history, image_path, status, content) ==
    /\ PassedLen(history) + 2 <= MaxHist
    /\ op' = Call("TextRequestStrategy.execute", "", 0, text, image_path, status,
                  PassedLen(history))
    /\ TextExecute(text, model, history, image_path, status, content)
    /\ UNCHANGED request_strategy

ImageExecuteDirect(text, model, history, image_path, status, content) ==
    /\ PassedLen(history) + 2 <= MaxHist
    /\ op' = Call("ImageRequestStrategy.execute", "", 0, text, image_path, status,
                  PassedLen(history))
    /\ ImageExecute(text, model, history, image_path, status, content)
    /\ UNCHANGED request_strategy

\* the arguments of the calls when the strategies are also called directly:
\* one text, one model, an absent and a missing image, a success and a failure
DirectTexts == {"hello"}

DirectModels == {models_text[1]}

DirectPaths == {NonePath, "missing.jpg"}

DirectStatuses == {200, 404}

NextDirect ==
    \/ \E strategy_type \in Kinds : ChangeStrategy(strategy_type)
    \/ \E text \in DirectTexts, model \in DirectModels, image_path \in DirectPaths,
          status \in DirectStatuses, content \in Replies :
            AskQuestion(text, model, image_path, status, content)
    \/ GetHistory
    \/ ClearHistory
    \/ \E text \in DirectTexts, model \in DirectModels, history \in HistoryArgs,
          image_path \in DirectPaths, status \in DirectStatuses, content \in Replies :
            TextExecuteDirect(text, model, history, image_path, status, content)
    \/ \E text \in DirectTexts, model \in DirectModels, history \in HistoryArgs,
          image_path \in DirectPaths, status \in DirectStatuses, content \in Replies :
            ImageExecuteDirect(text, model, history, image_path, status, content)

SpecDirect == Init /\ [][NextDirect]_vars

-----------------------------------------------------------------------------
(* What the claims speak of *)

\* self.text_request.history, as get_history hands it out
TextHist == Deref(heap, text_history)

\* self.image_request.history; None shows as no messages
ImageHist == Deref(heap, image_history)

\* the history of the strategy the facade dispatches to
ActiveHist ==
    IF request_strategy = "text" THEN TextHist
    ELSE IF request_strategy = "image" THEN ImageHist
    ELSE <<>>

\* the model list of the strategy the facade dispatches to
ActiveModels == IF request_strategy = "text" THEN models_text ELSE models_image

Active == request_strategy \in {"text", "image"}

\* the user message the active strategy builds for a call
UserMessageOf(text, image_path) ==
    IF request_strategy = "text"
        THEN TextUserMessage(text)
        ELSE ImageUserMessage(text, ImageRead(image_path).image_data)

HasTextPart(message) ==
    \E i \in DOMAIN message.content.parts : message.content.parts[i].type = "text"

HasImageData(message) ==
    \E i \in DOMAIN message.content.parts :
        /\ message.content.parts[i].type = "image_url"
        /\ message.content.parts[i].value # ""

\* neither history is touched: the same lists with the same messages
HistoriesUnchanged ==
    /\ text_history' = text_history
    /\ image_history' = image_history
    /\ TextHist' = TextHist
    /\ ImageHist' = ImageHist

-----------------------------------------------------------------------------
(* C1..C3: what a successful call does to the history *)

\* C1: a successful text call leaves the text history exactly two messages
\* longer than it was before the call: the user message with the call's text,
\* then the assistant message with the reply.
C1_TextCallAppendsTurn ==
    [][ (op'.name = "ask_question" /\ request_strategy = "text"
            /\ op'.status = 200 /\ ret'.kind = "json")
            => /\ Len(TextHist') = Len(TextHist) + 2
               /\ TextHist' = TextHist \o << TextUserMessage(op'.text),
                                             AssistantMessage(ret'.str) >> ]_vars

\* C2: the messages of every request ask_question sends are the active
\* strategy's whole history so far, in order, followed by the new user message.
C2_PayloadIsFullHistory ==
    [][ (op'.name = "ask_question" /\ wire' # <<>>)
            => wire'[1].messages
                   = Append(ActiveHist, UserMessageOf(op'.text, op'.image_path)) ]_vars

\* C3: a successful image call with a valid path leaves the image history
\* exactly two messages longer, and the user message it appended has a text
\* part and an image part with non-empty image data.
C3_ImageCallAppendsTurn ==
    [][ (op'.name = "ask_question" /\ request_strategy = "image"
            /\ op'.status = 200 /\ ret'.kind = "json" /\ FileExists(op'.image_path))
            => /\ Len(ImageHist') = Len(ImageHist) + 2
               /\ HasTextPart(ImageHist'[Len(ImageHist') - 1])
               /\ HasImageData(ImageHist'[Len(ImageHist') - 1]) ]_vars

-----------------------------------------------------------------------------
(* C4: a response other than 200 *)

\* C4: when the API answers with a status other than 200, the call raises
\* nothing and returns "Error: <status>"; the history ends with the call's
\* user message and no assistant message follows it, and a history that was
\* empty before the call holds that user message alone.
C4_ErrorStatusReturned ==
    [][ (op'.name = "ask_question" /\ op'.status # 200
            /\ (request_strategy = "text"
                    \/ (request_strategy = "image" /\ ~ImageRead(op'.image_path).raised)))
            => /\ ret' = Returned("str", "Error: " \o IntToStr(op'.status))
               /\ Len(wire') = 1
               /\ ActiveHist' # <<>>
               /\ ActiveHist'[Len(ActiveHist')] = UserMessageOf(op'.text, op'.image_path)
               /\ (ActiveHist = <<>>
                      => ActiveHist' = <<UserMessageOf(op'.text, op'.image_path)>>) ]_vars

\* an image call answered 404 on an empty history: the error string, and the
\* history holds the user message alone
C4_Witness ==
    /\ op.name = "ask_question"
    /\ request_strategy = "image"
    /\ op.status = 404
    /\ op.before = 0
    /\ ret = Returned("str", "Error: 404")
    /\ Len(ImageHist) = 1
    /\ ImageHist[1].role = "user"

-----------------------------------------------------------------------------
(* C5: clear_history *)

\* C5: clear_history with a strategy active leaves that strategy's history
\* empty, whatever it held, and a get_history right after returns an empty
\* list; with no strategy active it raises ValueError and changes no history.
C5_ClearHistory ==
    [][ /\ (op'.name = "clear_history" /\ Active)
            => /\ ret' = ReturnedNone
               /\ ActiveHist' = <<>>
               /\ (request_strategy = "text" => text_history' # NoneRef)
               /\ (request_strategy = "image" => image_history' # NoneRef)
        /\ (op'.name = "clear_history" /\ ~Active)
            => /\ ret'.kind = "ValueError"
               /\ HistoriesUnchanged
        /\ (op.name = "clear_history" /\ ret = ReturnedNone /\ op'.name = "get_history")
            => /\ ret'.kind = "ref"
               /\ ret'.ref # NoneRef
               /\ heap'[ret'.ref] = <<>> ]_vars

\* clear_history has emptied an image history of two messages
C5_Witness ==
    /\ op.name = "clear_history"
    /\ request_strategy = "image"
    /\ op.before = 2
    /\ ret = ReturnedNone
    /\ image_history # NoneRef
    /\ ImageHist = <<>>

-----------------------------------------------------------------------------
(* C6: change_strategy with an unknown kind *)

\* C6: change_strategy with a kind other than "text" and "image" raises
\* ValueError and leaves the active strategy and both histories as they were.
C6_InvalidKindChangesNothing ==
    [][ (op'.name = "change_strategy" /\ op'.strategy_type \notin {"text", "image"})
            => /\ ret'.kind = "ValueError"
               /\ request_strategy' = request_strategy
               /\ HistoriesUnchanged ]_vars

\* an unknown kind was refused while the text strategy was active with a
\* history of two messages, and the text strategy is still active
C6_Witness ==
    /\ op.name = "change_strategy"
    /\ op.strategy_type = "audio"
    /\ ret.kind = "ValueError"
    /\ request_strategy = "text"
    /\ op.before = 2
    /\ Len(TextHist) = 2

-----------------------------------------------------------------------------
(* C7, C8: select_model *)

\* C7: with a strategy active, select_model with an index outside 1..N, N the
\* size of the active strategy's model list, raises ValueError.
C7_IndexOutOfRangeRaises ==
    [][ (op'.name = "select_model" /\ Active
            /\ op'.l_num \notin 1 .. Len(ActiveModels))
            => ret' = Raised("ValueError", "Invalid model number") ]_vars

\* index 0 was refused with the text strategy active
C7_Witness ==
    /\ op.name = "select_model"
    /\ request_strategy = "text"
    /\ op.l_num = 0
    /\ ret.kind = "ValueError"

\* C8: with a strategy active, select_model with an index i in 1..N returns
\* the i-th identifier of the active strategy's list, never one of the other
\* strategy's; with the text strategy active, index 1 returns
\* "mistral-small-latest".
C8_SelectReturnsIthModel ==
    [][ (op'.name = "select_model" /\ Active /\ op'.l_num \in 1 .. Len(ActiveModels))
            => /\ ret' = Returned("str", ActiveModels[op'.l_num])
               /\ (request_strategy = "text"
                      => ret'.str \notin {models_image[i] : i \in DOMAIN models_image})
               /\ (request_strategy = "image"
                      => ret'.str \notin {models_text[i] : i \in DOMAIN models_text})
               /\ (request_strategy = "text" /\ op'.l_num = 1
                      => ret'.str = "mistral-small-latest") ]_vars

\* index 1 was entered with the text strategy active
C8_Witness ==
    /\ op.name = "select_model"
    /\ request_strategy = "text"
    /\ op.l_num = 1
    /\ ret = Returned("str", "mistral-small-latest")

-----------------------------------------------------------------------------
(* C9: an image path that names no file *)

\* C9: an image call whose path names no file raises the file-not-found
\* error to the caller, and no request is made during the call.
C9_MissingImageRaisesBeforeRequest ==
    [][ (op'.name = "ask_question" /\ request_strategy = "image"
            /\ Truthy(op'.image_path) /\ ~FileExists(op'.image_path))
            => /\ ret' = Raised("Exception", "Image file not found: " \o op'.image_path)
               /\ wire' = <<>> ]_vars

\* an image call with a missing file has raised
C9_Witness ==
    /\ op.name = "ask_question"
    /\ request_strategy = "image"
    /\ op.image_path = "missing.jpg"
    /\ ret.kind = "Exception"
    /\ wire = <<>>

-----------------------------------------------------------------------------
(* C10: no strategy active *)

\* C10: with no strategy active, ask_question, get_history and select_model
\* raise ValueError, make no request, and leave both histories and the
\* facade's state as they were.
C10_NoStrategyRaises ==
    [][ (request_strategy = "None"
            /\ op'.name \in {"ask_question", "get_history", "select_model"})
            => /\ ret' = Raised("ValueError", "Invalid strategy type")
               /\ wire' = <<>>
               /\ request_strategy' = "None"
               /\ HistoriesUnchanged ]_vars

\* ask_question was refused with no strategy active
C10_Witness ==
    /\ request_strategy = "None"
    /\ op.name = "ask_question"
    /\ ret.kind = "ValueError"
    /\ wire = <<>>

-----------------------------------------------------------------------------
(* C11: the roles of a history *)

\* user, assistant, user, assistant, ... from the first message on
Alternates(history) ==
    \A i \in DOMAIN history :
        history[i].role = (IF i % 2 = 1 THEN "user" ELSE "assistant")

\* C11: in every reachable state each strategy's history alternates user,
\* assistant, user, ... starting with user, also after calls that ended in
\* an error and after execute calls that were passed the prior history.
C11_RolesAlternate == Alternates(TextHist) /\ Alternates(ImageHist)

-----------------------------------------------------------------------------
(* C12: the facade's state machine *)

\* C12: the active strategy is one of None, text and image, is None after
\* construction, and changes only in a change_strategy call that succeeds:
\* select_model, ask_question, get_history and clear_history never change
\* it, however they end, and once a strategy is active it is never None again.
C12_OnlyChangeStrategySwitches ==
    [][ /\ (op.name = "__init__" => request_strategy = "None")
        /\ request_strategy' \in {"None", "text", "image"}
        /\ (request_strategy' # request_strategy
               => /\ op'.name = "change_strategy"
                  /\ ret' = ReturnedNone
                  /\ request_strategy' = op'.strategy_type)
        /\ (op'.name \in {"select_model", "ask_question", "get_history", "clear_history"}
               => request_strategy' = request_strategy)
        /\ (request_strategy # "None" => request_strategy' # "None") ]_vars

\* an ask_question has raised with the text strategy active, after an image
\* path was passed to it, and the text strategy is still the active one
C12_Witness ==
    /\ op.name = "ask_question"
    /\ op.image_path = "castle.jpg"
    /\ ret.kind = "KeyError"
    /\ request_strategy = "text"

-----------------------------------------------------------------------------
(* C13: one history per strategy *)

\* C13: ask_question and clear_history change only the active strategy's
\* history and leave the other strategy's history as it was, and
\* change_strategy changes neither, so a strategy switched away from and
\* back to finds its history as it was left.
C13_HistoriesIndependent ==
    [][ /\ (op'.name \in {"ask_question", "clear_history"} /\ request_strategy = "text")
            => (image_history' = image_history /\ ImageHist' = ImageHist)
        /\ (op'.name \in {"ask_question", "clear_history"} /\ request_strategy = "image")
            => (text_history' = text_history /\ TextHist' = TextHist)
        /\ (op'.name = "change_strategy") => HistoriesUnchanged ]_vars

\* the text strategy was switched to while the image strategy held a turn,
\* a text call was answered, and the image history still holds its turn
C13_Witness ==
    /\ op.name = "ask_question"
    /\ request_strategy = "text"
    /\ ret.kind = "json"
    /\ Len(TextHist) = 2
    /\ Len(ImageHist) = 2
    /\ ImageHist[1].content.shape = "list"
    /\ text_history # image_history

-----------------------------------------------------------------------------
(* C14: TextRequestStrategy.execute and its history argument *)

\* C14: with no history supplied, the text strategy's history becomes a new
\* list that holds the call's user message alone when the request is made,
\* whatever the history held before; with a history supplied, the user
\* message is appended in place to the supplied list, and that list is the
\* strategy's history from then on.
C14_HistoryArgument ==
    [][ /\ (op'.name = "TextRequestStrategy.execute" /\ op'.before < 0)
            => /\ text_history' # NoneRef
               /\ wire'[1].messages = <<TextUserMessage(op'.text)>>
               /\ TextHist'[1] = TextUserMessage(op'.text)
               /\ Len(TextHist') <= 2
               /\ (Len(TextHist') = 2 => TextHist'[2].role = "assistant")
               /\ image_history' = image_history
               /\ ImageHist' = ImageHist
        /\ (op'.name = "TextRequestStrategy.execute" /\ op'.before >= 0)
            => /\ text_history' = ret.ref
               /\ wire'[1].messages = Append(heap[ret.ref], TextUserMessage(op'.text))
               /\ SubSeq(heap'[ret.ref], 1, Len(heap[ret.ref]) + 1)
                      = Append(heap[ret.ref], TextUserMessage(op'.text))
               /\ (image_history = ret.ref => ImageHist' = TextHist') ]_vars

\* execute was passed a list of two messages and answered: the same list,
\* now of four messages, is the text strategy's history
C14_Witness ==
    /\ op.name = "TextRequestStrategy.execute"
    /\ op.before = 2
    /\ ret.kind = "json"
    /\ Len(TextHist) = 4
    /\ TextHist[3] = TextUserMessage(op.text)

-----------------------------------------------------------------------------
(* C15: the requests of one call *)

Returns == ret.kind \in {"json", "str"}

Raises == ret.kind \in {"ValueError", "Exception", "KeyError"}

\* C15: an ask_question call makes at most one request: exactly one when it
\* returns and none when it raises; a response other than 200 is not
\* followed by a second request.
C15_OneRequestOrRaise ==
    [][ op'.name = "ask_question"
            => /\ Len(wire') <= 1
               /\ (Returns' => Len(wire') = 1)
               /\ (Raises' => Len(wire') = 0) ]_vars

\* C15 as amended: an ask_question call makes at most one request: exactly
\* one when it returns, none when it raises for a missing strategy or a
\* missing image file, and exactly one when it raises while reading a 200
\* response that has no "choices"; a response other than 200 is returned
\* after that one request.
C15_AtMostOneRequest ==
    [][ op'.name = "ask_question"
            => /\ Returns' \/ Raises'
               /\ Len(wire') <= 1
               /\ (Returns' => Len(wire') = 1)
               /\ (ret'.kind \in {"ValueError", "Exception"} => Len(wire') = 0)
               /\ (ret'.kind = "KeyError" => (Len(wire') = 1 /\ op'.status = 200))
               /\ (Active /\ op'.status # 200 /\ Len(wire') = 1 => ret'.kind = "str") ]_vars

\* an image call answered 200 with no "choices" has raised after its one
\* request
C15_Witness ==
    /\ op.name = "ask_question"
    /\ request_strategy = "image"
    /\ op.status = 200
    /\ ret.kind = "KeyError"
    /\ Len(wire) = 1

-----------------------------------------------------------------------------
(* C16: an image call with no image path *)

\* C16: an image call with no image path raises nothing for the missing
\* path; it builds a user message of a text part and an image part whose
\* reference is the empty string, appends it to the history and makes the
\* request.
C16_NoPathSendsEmptyImage ==
    [][ (op'.name = "ask_question" /\ request_strategy = "image"
            /\ ~Truthy(op'.image_path))
            => /\ ret'.kind # "Exception"
               /\ Len(wire') = 1
               /\ wire'[1].messages[Len(wire'[1].messages)]
                      = ImageUserMessage(op'.text, "")
               /\ Len(ImageHist') >= Len(wire'[1].messages)
               /\ ImageHist'[Len(wire'[1].messages)] = ImageUserMessage(op'.text, "")
               /\ ImageUserMessage(op'.text, "").content.parts
                      = << [type |-> "text", value |-> op'.text],
                           [type |-> "image_url", value |-> ""] >> ]_vars

\* an image call with no path was answered 200: the history holds the user
\* message with the empty image reference, then the reply
C16_Witness ==
    /\ op.name = "ask_question"
    /\ request_strategy = "image"
    /\ op.image_path = NonePath
    /\ ret.kind = "json"
    /\ Len(wire) = 1
    /\ Len(ImageHist) = 2
    /\ ~HasImageData(ImageHist[1])

-----------------------------------------------------------------------------
(* C17: the model of a request *)

\* the identifiers of a model list
ModelSet(models) == {models[i] : i \in DOMAIN models}

\* C17: every request made through the facade carries a model identifier of
\* the model list of the strategy that is active at the call.
C17_ModelOfActiveStrategy ==
    (op.name = "ask_question" /\ wire # <<>>)
        => wire[1].model \in ModelSet(ActiveModels)

-----------------------------------------------------------------------------
(* C18: the length of a history when the facade is the only caller *)

\* no message, a user message, or a user message and the assistant's reply
AtMostOneTurn(history) ==
    /\ Len(history) <= 2
    /\ (Len(history) >= 1 => history[1].role = "user")
    /\ (Len(history) = 2 => history[2].role = "assistant")

-----------------------------------------------------------------------------
(* C19: get_history never hands out None *)

\* C19: with a strategy active, get_history returns a list (it may be
\* empty), never None; an image ask_question that raises the file-not-found
\* error leaves the image strategy's history as it was before the call.
C19_HistoryIsAlwaysAList ==
    [][ /\ (op'.name = "get_history" /\ Active)
            => (ret'.kind = "ref" /\ ret'.ref # NoneRef)
        /\ (op'.name = "ask_question" /\ request_strategy = "image"
                /\ ret'.kind = "Exception")
            => (image_history' = image_history /\ ImageHist' = ImageHist) ]_vars

====
